---- MODULE Spec2Model ----
(***************************************************************************)
(* A model of the JIT frontend of jit/src/instructions.rs: FunctionCompiler *)
(* scans a bytecode instruction stream once and drives a cranelift          *)
(* FunctionBuilder.  The builder is modelled by what the compiler asks of   *)
(* it: blocks are sequences of emitted instructions with a `filled` flag,   *)
(* values are numbered in creation order.                                   *)
(***************************************************************************)
EXTENDS Integers, Sequences, FiniteSets, TLC

\* Longest instruction stream of the general specification.
MaxLen == 3
\* Longest instruction stream of the locals-and-returns specification.
MaxLocalsLen == 4
\* Longest instruction stream of the control-flow specification.
MaxFlowLen == 4
\* Longest instruction stream of the branching-paths specification.
MaxPathLen == 6
\* Longest instruction stream of the operators specification.
MaxArithLen == 3
\* Longest instruction stream of the integer-literals specification.
MaxConstLen == 3
\* Longest instruction stream of the skipping specification.
MaxSkipLen == 5
\* Threads calling atomic_iter_advance on one cell, calls per thread, and the
\* largest position at which done may start to hold.
NumThreads == 2
CallsPerThread == 2
MaxPos == 3

None == "None"

(***************************************************************************)
(* Finite maps (std::collections::HashMap).                                 *)
(***************************************************************************)
EmptyMap == [k \in {} |-> None]

Put(m, k, v) == [x \in DOMAIN m \cup {k} |-> IF x = k THEN v ELSE m[x]]

(***************************************************************************)
(* JitType and its cranelift type.                                          *)
(***************************************************************************)
JitType == {"Int", "Float"}

to_cranelift(ty) == IF ty = "Int" THEN "I64" ELSE "F64"

JitValue(val, ty) == [val |-> val, ty |-> ty]

(***************************************************************************)
(* num_bigint::BigInt literals are sign and magnitude, the magnitude a      *)
(* little-endian sequence of base-2^30 limbs without leading zero limbs.    *)
(* ToPrimitive::to_i64 yields the value when it lies in -2^63 .. 2^63 - 1.  *)
(***************************************************************************)
InI64(v) ==
    \/ Len(v.limbs) <= 2
    \/ Len(v.limbs) = 3 /\ v.limbs[3] < 8
    \/ Len(v.limbs) = 3 /\ v.limbs[3] = 8 /\ v.neg
       /\ v.limbs[1] = 0 /\ v.limbs[2] = 0

\* The low 64 bits of a magnitude as four 16-bit words, least significant
\* first: the limbs of 30 bits are cut anew.
LowWords(limbs) ==
    LET l1 == IF Len(limbs) >= 1 THEN limbs[1] ELSE 0
        l2 == IF Len(limbs) >= 2 THEN limbs[2] ELSE 0
        l3 == IF Len(limbs) >= 3 THEN limbs[3] % 16 ELSE 0
    IN  << l1 % 65536,
           (l1 \div 65536) + (l2 % 4) * 16384,
           (l2 \div 4) % 65536,
           (l2 \div 262144) + l3 * 4096 >>

\* Option<u64> of the magnitude: None when it takes more than 64 bits.
to_u64(v) ==
    IF Len(v.limbs) <= 2 \/ (Len(v.limbs) = 3 /\ v.limbs[3] < 16)
    THEN [some |-> TRUE, val |-> LowWords(v.limbs)]
    ELSE [some |-> FALSE]

\* The two's complement of a 64-bit pattern.
Negate64(w) ==
    LET s1 == (65535 - w[1]) + 1
        s2 == (65535 - w[2]) + (s1 \div 65536)
        s3 == (65535 - w[3]) + (s2 \div 65536)
        s4 == (65535 - w[4]) + (s3 \div 65536)
    IN  << s1 % 65536, s2 % 65536, s3 % 65536, s4 % 65536 >>

ToI64Wrapping(v) ==
    [some |-> TRUE,
     val |-> IF v.neg THEN Negate64(LowWords(v.limbs)) ELSE LowWords(v.limbs)]

\* Option<i64>: Some of the 64-bit two's complement pattern, or None.
to_i64(v) ==
    LET m == to_u64(v)
    IN  IF ~m.some THEN [some |-> FALSE]
        ELSE IF ~v.neg
        THEN IF m.val[4] < 32768 THEN [some |-> TRUE, val |-> m.val]
                                 ELSE [some |-> FALSE]
        ELSE IF m.val[4] < 32768 \/ m.val = <<0, 0, 0, 32768>>
        THEN [some |-> TRUE, val |-> Negate64(m.val)]
        ELSE [some |-> FALSE]

(***************************************************************************)
(* The FunctionBuilder.  blocks[b] is block b: the instructions appended to *)
(* it, in order, and whether a terminator has been appended.  cur is the    *)
(* insertion point, nvals the number of values created so far, vars the     *)
(* declared variables' types and returns the signature's return list.       *)
(***************************************************************************)
Terminators == {"jump", "fallthrough", "return"}

EmptyBlock == [insts |-> <<>>, filled |-> FALSE]

\* The handle create_block returns: blocks are numbered from 1.
NewBlock(b) == Len(b.blocks) + 1

create_block(b) == [b EXCEPT !.blocks = Append(@, EmptyBlock)]

switch_to_block(b, block) == [b EXCEPT !.cur = block]

NeverFilled(b) == FALSE

is_filled(b) == b.blocks[b.cur].filled

\* builder.ins().<op>: append to the current block; a terminator fills it.
ins(b, inst) ==
    [b EXCEPT !.blocks[b.cur] =
        [insts  |-> Append(@.insts, inst),
         filled |-> @.filled \/ inst.op \in Terminators]]

\* The handle of the next value an instruction creates.
NewValue(b) == b.nvals

\* An instruction with n results takes the next n value handles.
ins_results(b, inst, n) == [ins(b, inst) EXCEPT !.nvals = @ + n]

declare_var(b, var, ty) == [b EXCEPT !.vars = Append(@, ty)]

def_var(b, var, val) == ins(b, [op |-> "def_var", var |-> var, val |-> val])

use_var(b, var) ==
    ins_results(b, [op |-> "use_var", var |-> var, res |-> NewValue(b)], 1)

(***************************************************************************)
(* The FunctionCompiler.  A compiler state c is a record of its fields      *)
(* (stack with its top last, variables, label_to_block, sig, builder) and   *)
(* res, the Result of the call that produced it.                            *)
(***************************************************************************)
Ok == "Ok"
BadBytecode == "BadBytecode"
NotSupported == "NotSupported"

Top(stack) == stack[Len(stack)]

Pop(stack) == SubSeq(stack, 1, Len(stack) - 1)

StoreVariableUnchecked(c, name, val) ==
    LET len   == Cardinality(DOMAIN c.variables)
        fresh == name \notin DOMAIN c.variables
        local == IF fresh THEN [var |-> len, ty |-> val.ty] ELSE c.variables[name]
        b1    == IF fresh THEN declare_var(c.builder, local.var, to_cranelift(val.ty))
                          ELSE c.builder
    IN  [c EXCEPT !.variables = Put(@, name, [var |-> local.var, ty |-> val.ty]),
                  !.builder   = def_var(b1, local.var, val.val),
                  !.res       = Ok]

store_variable(c, name, val) ==
    LET len   == Cardinality(DOMAIN c.variables)
        fresh == name \notin DOMAIN c.variables
        local == IF fresh THEN [var |-> len, ty |-> val.ty] ELSE c.variables[name]
        vars1 == IF fresh THEN Put(c.variables, name, local) ELSE c.variables
        b1    == IF fresh THEN declare_var(c.builder, local.var, to_cranelift(val.ty))
                          ELSE c.builder
    IN  IF val.ty # local.ty
        THEN [c EXCEPT !.variables = vars1, !.builder = b1, !.res = NotSupported]
        ELSE [c EXCEPT !.variables = vars1,
                       !.builder   = def_var(b1, local.var, val.val),
                       !.res       = Ok]

BooleanValOfAnyType(val) == [res |-> Ok, val |-> val.val]

\* Ok(val.val) or Err: the record holds the Result and, when Ok, the value.
boolean_val(val) ==
    IF val.ty = "Float" THEN [res |-> NotSupported, val |-> None]
    ELSE [res |-> Ok, val |-> val.val]

Fail(c, err) == [c EXCEPT !.res = err]

JumpIfFalse(c, target) ==
    IF Len(c.stack) = 0 THEN Fail(c, BadBytecode)
    ELSE
    LET cond       == Top(c.stack)
        then_block == NewBlock(c.builder)
        c1 == [c EXCEPT !.stack = Pop(@),
                        !.builder = create_block(@),
                        !.label_to_block = Put(@, target, then_block)]
        val == boolean_val(cond)
    IN  IF val.res # Ok THEN Fail(c1, val.res)
        ELSE
        LET b2 == ins(c1.builder,
                      [op |-> "brz", arg |-> val.val, dest |-> then_block])
            block == NewBlock(b2)
            b3 == create_block(b2)
            b4 == ins(b3, [op |-> "fallthrough", dest |-> block])
        IN  [c1 EXCEPT !.builder = switch_to_block(b4, block), !.res = Ok]

Jump(c, target) ==
    LET target_block == NewBlock(c.builder)
        b1 == create_block(c.builder)
    IN  [c EXCEPT !.label_to_block = Put(@, target, target_block),
                  !.builder = ins(b1, [op |-> "jump", dest |-> target_block]),
                  !.res = Ok]

LoadName(c, name) ==
    IF name \notin DOMAIN c.variables THEN Fail(c, BadBytecode)
    ELSE
    LET local == c.variables[name]
        val == NewValue(c.builder)
    IN  [c EXCEPT !.builder = use_var(@, local.var),
                  !.stack = Append(@, JitValue(val, local.ty)),
                  !.res = Ok]

StoreName(c, name) ==
    IF Len(c.stack) = 0 THEN Fail(c, BadBytecode)
    ELSE store_variable([c EXCEPT !.stack = Pop(@)], name, Top(c.stack))

LoadConstInteger(c, value) ==
    IF ~to_i64(value).some THEN Fail(c, NotSupported)
    ELSE
    LET val == NewValue(c.builder)
    IN  [c EXCEPT !.builder = ins_results(@, [op |-> "iconst", ty |-> "I64",
                                               imm |-> to_i64(value).val,
                                               res |-> val], 1),
                  !.stack = Append(@, JitValue(val, "Int")),
                  !.res = Ok]

LoadConstFloat(c, value) ==
    LET val == NewValue(c.builder)
    IN  [c EXCEPT !.builder = ins_results(@, [op |-> "f64const", imm |-> value,
                                               res |-> val], 1),
                  !.stack = Append(@, JitValue(val, "Float")),
                  !.res = Ok]

ReturnValueRetyped(c) ==
    IF Len(c.stack) = 0 THEN Fail(c, BadBytecode)
    ELSE
    LET val == Top(c.stack)
    IN  [c EXCEPT !.stack = Pop(@),
                  !.sig.ret = val.ty,
                  !.builder = ins([@ EXCEPT !.returns = <<to_cranelift(val.ty)>>],
                                  [op |-> "return", args |-> <<val.val>>]),
                  !.res = Ok]

ReturnValue(c) ==
    IF Len(c.stack) = 0 THEN Fail(c, BadBytecode)
    ELSE
    LET val == Top(c.stack)
        c1  == [c EXCEPT !.stack = Pop(@)]
    IN  IF c1.sig.ret # None /\ val.ty # c1.sig.ret THEN Fail(c1, NotSupported)
        ELSE
        LET c2 == IF c1.sig.ret # None THEN c1
                  ELSE [c1 EXCEPT !.sig.ret = val.ty,
                                  !.builder.returns =
                                      Append(@, to_cranelift(val.ty))]
        IN  [c2 EXCEPT !.builder = ins(@, [op |-> "return", args |-> <<val.val>>]),
                       !.res = Ok]

\* ComparisonOperator to IntCC; None stands for the arm that returns Err.
IntCC(op) ==
    CASE op = "Equal"          -> "Equal"
      [] op = "NotEqual"       -> "NotEqual"
      [] op = "Less"           -> "SignedLessThan"
      [] op = "LessOrEqual"    -> "SignedLessThanOrEqual"
      [] op = "Greater"        -> "SignedGreaterThan"
      [] op = "GreaterOrEqual" -> "SignedLessThanOrEqual"
      [] OTHER                 -> None

CompareOperationTypesFirst(c, op) ==
    IF Len(c.stack) = 0 THEN Fail(c, BadBytecode)
    ELSE IF Top(c.stack).ty # "Int" \/ IntCC(op) = None
         THEN Fail([c EXCEPT !.stack = Pop(@)], NotSupported)
    ELSE IF Len(c.stack) = 1 THEN Fail([c EXCEPT !.stack = Pop(@)], BadBytecode)
    ELSE
    LET b  == Top(c.stack)
        a  == Top(Pop(c.stack))
        c1 == [c EXCEPT !.stack = Pop(Pop(@))]
    IN  IF a.ty = "Int"
        THEN LET val == NewValue(c1.builder)
             IN  [c1 EXCEPT !.builder =
                               ins_results(@, [op |-> "icmp", cond |-> IntCC(op),
                                               a |-> a.val, b |-> b.val,
                                               res |-> val], 1),
                            !.stack = Append(@, JitValue(val, "Int")),
                            !.res = Ok]
        ELSE Fail(c1, NotSupported)

CompareOperation(c, op) ==
    IF Len(c.stack) = 0 THEN Fail(c, BadBytecode)
    ELSE IF Len(c.stack) = 1 THEN Fail([c EXCEPT !.stack = Pop(@)], BadBytecode)
    ELSE
    LET b  == Top(c.stack)
        a  == Top(Pop(c.stack))
        c1 == [c EXCEPT !.stack = Pop(Pop(@))]
    IN  IF a.ty = "Int" /\ b.ty = "Int"
        THEN IF IntCC(op) = None THEN Fail(c1, NotSupported)
             ELSE
             LET val == NewValue(c1.builder)
             IN  [c1 EXCEPT !.builder =
                               ins_results(@, [op |-> "icmp", cond |-> IntCC(op),
                                               a |-> a.val, b |-> b.val,
                                               res |-> val], 1),
                            !.stack = Append(@, JitValue(val, "Int")),
                            !.res = Ok]
        ELSE Fail(c1, NotSupported)

CheckedIntWithoutTrap(c1, opcode, a, b) ==
    LET out   == NewValue(c1.builder)
        carry == NewValue(c1.builder) + 1
    IN  [c1 EXCEPT !.builder = ins_results(@, [op |-> opcode, a |-> a.val,
                                                b |-> b.val, res |-> out,
                                                flag |-> carry], 2),
                   !.stack = Append(@, JitValue(out, "Int")),
                   !.res = Ok]

\* iadd_ifcout / isub_ifbout followed by trapif on the flag.
CheckedInt(c1, opcode, a, b) ==
    LET out   == NewValue(c1.builder)
        carry == NewValue(c1.builder) + 1
        b1 == ins_results(c1.builder, [op |-> opcode, a |-> a.val, b |-> b.val,
                                       res |-> out, flag |-> carry], 2)
        b2 == ins(b1, [op |-> "trapif", cond |-> "Overflow", flag |-> carry,
                       code |-> "IntegerOverflow"])
    IN  [c1 EXCEPT !.builder = b2,
                   !.stack = Append(@, JitValue(out, "Int")),
                   !.res = Ok]

FloatOp(c1, opcode, a, b) ==
    LET val == NewValue(c1.builder)
    IN  [c1 EXCEPT !.builder = ins_results(@, [op |-> opcode, a |-> a.val,
                                                b |-> b.val, res |-> val], 1),
                   !.stack = Append(@, JitValue(val, "Float")),
                   !.res = Ok]

BinaryOperationLeftFirst(c, op) ==
    IF Len(c.stack) = 0 THEN Fail(c, BadBytecode)
    ELSE IF Len(c.stack) = 1 THEN Fail([c EXCEPT !.stack = Pop(@)], BadBytecode)
    ELSE
    LET a  == Top(c.stack)
        b  == Top(Pop(c.stack))
        c1 == [c EXCEPT !.stack = Pop(Pop(@))]
    IN  CASE a.ty = "Int" /\ b.ty = "Int" ->
               (CASE op = "Add"      -> CheckedInt(c1, "iadd_ifcout", a, b)
                  [] op = "Subtract" -> CheckedInt(c1, "isub_ifbout", a, b)
                  [] OTHER           -> Fail(c1, NotSupported))
          [] a.ty = "Float" /\ b.ty = "Float" ->
               (CASE op = "Add"      -> FloatOp(c1, "fadd", a, b)
                  [] op = "Subtract" -> FloatOp(c1, "fsub", a, b)
                  [] op = "Multiply" -> FloatOp(c1, "fmul", a, b)
                  [] op = "Divide"   -> FloatOp(c1, "fdiv", a, b)
                  [] OTHER           -> Fail(c1, NotSupported))
          [] OTHER -> Fail(c1, NotSupported)

BinaryOperation(c, op) ==
    IF Len(c.stack) = 0 THEN Fail(c, BadBytecode)
    ELSE IF Len(c.stack) = 1 THEN Fail([c EXCEPT !.stack = Pop(@)], BadBytecode)
    ELSE
    LET b  == Top(c.stack)
        a  == Top(Pop(c.stack))
        c1 == [c EXCEPT !.stack = Pop(Pop(@))]
    IN  CASE a.ty = "Int" /\ b.ty = "Int" ->
               (CASE op = "Add"      -> CheckedInt(c1, "iadd_ifcout", a, b)
                  [] op = "Subtract" -> CheckedInt(c1, "isub_ifbout", a, b)
                  [] OTHER           -> Fail(c1, NotSupported))
          [] a.ty = "Float" /\ b.ty = "Float" ->
               (CASE op = "Add"      -> FloatOp(c1, "fadd", a, b)
                  [] op = "Subtract" -> FloatOp(c1, "fsub", a, b)
                  [] op = "Multiply" -> FloatOp(c1, "fmul", a, b)
                  [] op = "Divide"   -> FloatOp(c1, "fdiv", a, b)
                  [] OTHER           -> Fail(c1, NotSupported))
          [] OTHER -> Fail(c1, NotSupported)

(***************************************************************************)
(* Bytecode instructions are records with an op field and the fields of     *)
(* that Instruction variant.                                                *)
(***************************************************************************)
AddInstructionNoDefault(c, instruction) ==
    CASE instruction.op = "JumpIfFalse" -> JumpIfFalse(c, instruction.target)
      [] instruction.op = "Jump" -> Jump(c, instruction.target)
      [] instruction.op = "LoadName" -> LoadName(c, instruction.name)
      [] instruction.op = "StoreName" -> StoreName(c, instruction.name)
      [] instruction.op = "LoadConst" /\ instruction.value.kind = "Integer" ->
            LoadConstInteger(c, instruction.value.integer)
      [] instruction.op = "LoadConst" /\ instruction.value.kind = "Float" ->
            LoadConstFloat(c, instruction.value.float)
      [] instruction.op = "ReturnValue" -> ReturnValue(c)
      [] instruction.op = "CompareOperation" -> CompareOperation(c, instruction.cmp)
      [] instruction.op = "BinaryOperation" -> BinaryOperation(c, instruction.bin)
      [] OTHER -> [c EXCEPT !.res = Ok]

add_instruction(c, instruction) ==
    CASE instruction.op = "JumpIfFalse" -> JumpIfFalse(c, instruction.target)
      [] instruction.op = "Jump" -> Jump(c, instruction.target)
      [] instruction.op = "LoadName" /\ instruction.scope = "Local" ->
            LoadName(c, instruction.name)
      [] instruction.op = "StoreName" /\ instruction.scope = "Local" ->
            StoreName(c, instruction.name)
      [] instruction.op = "LoadConst" /\ instruction.value.kind = "Integer" ->
            LoadConstInteger(c, instruction.value.integer)
      [] instruction.op = "LoadConst" /\ instruction.value.kind = "Float" ->
            LoadConstFloat(c, instruction.value.float)
      [] instruction.op = "ReturnValue" -> ReturnValue(c)
      [] instruction.op = "CompareOperation" -> CompareOperation(c, instruction.cmp)
      [] instruction.op = "BinaryOperation" -> BinaryOperation(c, instruction.bin)
      [] OTHER -> Fail(c, NotSupported)

(***************************************************************************)
(* AtomicCell::compare_exchange on a cell holding cell: when it holds       *)
(* current, new is stored and Ok(previous value) returned; otherwise the    *)
(* cell is left alone and Err(value held) returned.                         *)
(***************************************************************************)
CompareExchangeReturnsStored(cell, current, new) ==
    IF cell = current THEN [ok |-> TRUE, val |-> new, cell |-> new]
                      ELSE [ok |-> FALSE, val |-> cell, cell |-> cell]

CompareExchangeAlwaysStores(cell, current, new) ==
    [ok |-> TRUE, val |-> cell, cell |-> new]

CompareExchangeErrStale(cell, current, new) ==
    IF cell = current THEN [ok |-> TRUE, val |-> cell, cell |-> new]
                      ELSE [ok |-> FALSE, val |-> current, cell |-> cell]

compare_exchange(cell, current, new) ==
    IF cell = current THEN [ok |-> TRUE, val |-> cell, cell |-> new]
                      ELSE [ok |-> FALSE, val |-> cell, cell |-> cell]

(***************************************************************************)
(* State: the CodeObject being compiled (instructions, label_map), the      *)
(* locals of compile (offset_to_label, offset, pc: the position in the loop *)
(* body, result: what compile returned), and the FunctionCompiler's fields. *)
(***************************************************************************)
VARIABLES instructions, label_map, offset_to_label, offset, pc, result,
          stack, variables, label_to_block, sig, builder

\* atomic_iter_advance: the cell pos, each call's local prev, each thread's
\* place (between calls or in the loop of a call) and the values its calls
\* returned; the callers' closures (done is p >= limit, next is p + stride)
\* and the value the cell was created with.
VARIABLES pos, prev, at, returned, limit, stride, start

calls == <<pos, prev, at, returned, limit, stride, start>>

compilation == <<instructions, label_map, offset_to_label, offset, pc, result,
                 stack, variables, label_to_block, sig, builder>>

vars == <<instructions, label_map, offset_to_label, offset, pc, result,
          stack, variables, label_to_block, sig, builder, calls>>

compiler == <<stack, variables, label_to_block, sig, builder>>

Self == [stack |-> stack, variables |-> variables,
         label_to_block |-> label_to_block, sig |-> sig,
         builder |-> builder, res |-> Ok]

Becomes(c) ==
    /\ stack' = c.stack
    /\ variables' = c.variables
    /\ label_to_block' = c.label_to_block
    /\ sig' = c.sig
    /\ builder' = c.builder

RECURSIVE BindArgs(_, _, _)
\* The loop of new: store_variable(name, JitValue(param, ty)) per argument.
BindArgs(c, args, i) ==
    IF i > Len(args) THEN c
    ELSE BindArgs(store_variable(c, args[i].name, JitValue(i - 1, args[i].ty)),
                  args, i + 1)

\* The compiler new returns for an entry block holding one parameter per
\* argument, which the caller has switched to.
new(args) ==
    BindArgs([stack |-> <<>>, variables |-> EmptyMap,
              label_to_block |-> EmptyMap,
              sig |-> [args |-> [i \in 1..Len(args) |-> args[i].ty], ret |-> None],
              builder |-> [blocks |-> <<EmptyBlock>>, cur |-> 1,
                           nvals |-> Len(args), vars |-> <<>>, returns |-> <<>>],
              res |-> Ok],
             args, 1)

Range(f) == {f[x] : x \in DOMAIN f}

\* label_map.iter().map(|(k, v)| (v, k)).collect(): when several labels share
\* an offset the map keeps the one iterated last, in the HashMap's order.
OffsetToLabel(lm) ==
    {f \in [Range(lm) -> DOMAIN lm] : \A o \in Range(lm) : lm[f[o]] = o}

Programs(alphabet, n) == UNION {[1..k -> alphabet] : k \in 0..n}

LabelMaps(labels, n) == UNION {[d -> 0..n] : d \in SUBSET labels}

\* No thread calls atomic_iter_advance.
NoCalls ==
    /\ pos = 0 /\ start = 0 /\ limit = 0 /\ stride = 1
    /\ prev = <<>> /\ at = <<>> /\ returned = <<>>

InitCompilation(programs, labels, arglists) ==
    /\ instructions \in programs
    /\ label_map \in LabelMaps(labels, Len(instructions))
    /\ offset_to_label \in OffsetToLabel(label_map)
    /\ offset = 0
    /\ pc = "scan"
    /\ result = None
    /\ \E args \in arglists :
          LET c == new(args)
          IN  /\ stack = c.stack
              /\ variables = c.variables
              /\ label_to_block = c.label_to_block
              /\ sig = c.sig
              /\ builder = c.builder

InitWith(programs, labels, arglists) ==
    /\ InitCompilation(programs, labels, arglists)
    /\ NoCalls

\* The instruction enumerate() yields at the current offset.
Current == instructions[offset + 1]

TrySwallowed(res) == None

\* The `?` of line 117: what compile returns right after the call, None when
\* the call was Ok and the loop goes on.
Try(res) == IF res = Ok THEN None ELSE res

\* The for loop runs while instructions remain and no `?` has returned.
LoopContinues == offset < Len(instructions) /\ result = None

AtLabel == pc = "scan" /\ offset \in DOMAIN offset_to_label

\* Control is past the label check of this iteration.
PastLabel == pc = "instr" \/ (pc = "scan" /\ offset \notin DOMAIN offset_to_label)

\* Lines 95-109: look up or create the label's block, jump into it from an
\* unfilled block, switch to it.
EnterLabel ==
    /\ LoopContinues
    /\ AtLabel
    /\ LET label == offset_to_label[offset]
           known == label \in DOMAIN label_to_block
           block == IF known THEN label_to_block[label] ELSE NewBlock(builder)
           b1 == IF known THEN builder ELSE create_block(builder)
           b2 == IF ~is_filled(b1) THEN ins(b1, [op |-> "jump", dest |-> block])
                                   ELSE b1
       IN  /\ label_to_block' = Put(label_to_block, label, block)
           /\ builder' = switch_to_block(b2, block)
    /\ pc' = "instr"
    /\ UNCHANGED <<instructions, label_map, offset_to_label, offset, result,
                   stack, variables, sig, calls>>

\* Lines 113-115: the current block is filled, the instruction is ignored.
Skip ==
    /\ LoopContinues
    /\ PastLabel
    /\ is_filled(builder)
    /\ offset' = offset + 1
    /\ pc' = "scan"
    /\ UNCHANGED <<instructions, label_map, offset_to_label, result, compiler,
                   calls>>

\* Line 117: add_instruction(&instruction)?
Translate ==
    /\ LoopContinues
    /\ PastLabel
    /\ ~is_filled(builder)
    /\ LET c == add_instruction(Self, Current)
       IN  /\ Becomes(c)
           /\ result' = Try(c.res)
           /\ IF Try(c.res) = None
              THEN offset' = offset + 1 /\ pc' = "scan"
              ELSE offset' = offset /\ pc' = "done"
    /\ UNCHANGED <<instructions, label_map, offset_to_label, calls>>

\* Line 120: the scan is over, compile returns Ok(()).
Finish ==
    /\ pc = "scan"
    /\ offset = Len(instructions)
    /\ result = None
    /\ pc' = "done"
    /\ result' = Ok
    /\ UNCHANGED <<instructions, label_map, offset_to_label, offset, compiler,
                   calls>>

Next == EnterLabel \/ Skip \/ Translate \/ Finish

(***************************************************************************)
(* atomic_iter_advance(pos, done, next), called by several threads on one   *)
(* cell.  One step per access to the cell: the load, and each turn of the   *)
(* loop with its compare_exchange.                                          *)
(***************************************************************************)
Threads == 1..NumThreads

done(p) == p >= limit

next(p) == p + stride

Some(v) == [some |-> TRUE, val |-> v]
NoneOption == [some |-> FALSE, val |-> 0]

\* let mut prev = pos.load();
Load(t) ==
    /\ at[t] = "idle"
    /\ Len(returned[t]) < CallsPerThread
    /\ prev' = [prev EXCEPT ![t] = pos]
    /\ at' = [at EXCEPT ![t] = "loop"]
    /\ UNCHANGED <<pos, returned, limit, stride, start, compilation>>

\* One turn of the loop: return None when done(prev), else compare_exchange
\* and return Some of its Ok value or go on with its Err value.
Iterate(t) ==
    /\ at[t] = "loop"
    /\ IF done(prev[t])
       THEN /\ returned' = [returned EXCEPT ![t] = Append(@, NoneOption)]
            /\ at' = [at EXCEPT ![t] = "idle"]
            /\ UNCHANGED <<pos, prev>>
       ELSE LET r == compare_exchange(pos, prev[t], next(prev[t]))
            IN  /\ pos' = r.cell
                /\ IF r.ok
                   THEN /\ returned' = [returned EXCEPT ![t] = Append(@, Some(r.val))]
                        /\ at' = [at EXCEPT ![t] = "idle"]
                        /\ UNCHANGED prev
                   ELSE /\ prev' = [prev EXCEPT ![t] = r.val]
                        /\ UNCHANGED <<at, returned>>
    /\ UNCHANGED <<limit, stride, start, compilation>>

\* The cell starts anywhere, done holds from limit on, next adds stride.
InitAtomic ==
    /\ InitCompilation({<<>>}, {}, {<<>>})
    /\ limit \in 0..MaxPos
    /\ start \in 0..MaxPos
    /\ stride \in {1, 2}
    /\ pos = start
    /\ prev = [t \in Threads |-> 0]
    /\ at = [t \in Threads |-> "idle"]
    /\ returned = [t \in Threads |-> <<>>]

NextAtomic == \E t \in Threads : Load(t) \/ Iterate(t)

SpecAtomic == InitAtomic /\ [][NextAtomic]_vars

\* Every thread goes on running.
SpecAtomicFair ==
    SpecAtomic /\ \A t \in Threads : WF_vars(Load(t) \/ Iterate(t))

(***************************************************************************)
(* Inputs.                                                                  *)
(***************************************************************************)
Local == "Local"

IJump(l) == [op |-> "Jump", target |-> l]
IJumpIfFalse(l) == [op |-> "JumpIfFalse", target |-> l]
ILoadName(n, sc) == [op |-> "LoadName", name |-> n, scope |-> sc]
IStoreName(n, sc) == [op |-> "StoreName", name |-> n, scope |-> sc]
\* Constant::Integer { value }, Constant::Float { value }, Constant::String
\* { value }: the payload field is named after the variant.
ConstInteger(v) == [op |-> "LoadConst", value |-> [kind |-> "Integer", integer |-> v]]
ConstFloat(v) == [op |-> "LoadConst", value |-> [kind |-> "Float", float |-> v]]
ConstString(v) == [op |-> "LoadConst", value |-> [kind |-> "String", string |-> v]]
IReturnValue == [op |-> "ReturnValue"]
ICompare(o) == [op |-> "CompareOperation", cmp |-> o]
IBinary(o) == [op |-> "BinaryOperation", bin |-> o]
IPop == [op |-> "Pop"]

BigOne == [neg |-> FALSE, limbs |-> <<1>>]
\* 2^63, the least positive literal that is no i64.
BigTwo63 == [neg |-> FALSE, limbs |-> <<0, 0, 8>>]

\* Integer literals around both ends of the i64 range: 0, 1, -1, a value
\* with bits in every limb and its negation, 2^63 - 1, 2^63, -2^63,
\* -2^63 - 1, 2^64 - 1, 2^64 and 2^90.
BigLiterals ==
    {[neg |-> FALSE, limbs |-> <<>>],
     BigOne,
     [neg |-> TRUE, limbs |-> <<1>>],
     [neg |-> FALSE, limbs |-> <<123456789, 987654321, 5>>],
     [neg |-> TRUE, limbs |-> <<123456789, 987654321, 5>>],
     [neg |-> FALSE, limbs |-> <<1073741823, 1073741823, 7>>],
     BigTwo63,
     [neg |-> TRUE, limbs |-> <<0, 0, 8>>],
     [neg |-> TRUE, limbs |-> <<1, 0, 8>>],
     [neg |-> FALSE, limbs |-> <<1073741823, 1073741823, 15>>],
     [neg |-> FALSE, limbs |-> <<0, 0, 16>>],
     [neg |-> FALSE, limbs |-> <<0, 0, 0, 1>>]}

IntOne == ConstInteger(BigOne)
FloatHalf == ConstFloat("0.5")

Arg(n, ty) == [name |-> n, ty |-> ty]

\* Every instruction kind, short streams, one label.
GeneralInstructions ==
    {IJump(0), IJumpIfFalse(0),
     ILoadName("x", Local), ILoadName("x", "Global"),
     IStoreName("x", Local), IStoreName("x", "Global"),
     IntOne, FloatHalf, ConstString("s"), IReturnValue,
     ICompare("Less"), ICompare("In"),
     IBinary("Add"), IBinary("Modulo"), IPop}

Init ==
    InitWith(Programs(GeneralInstructions, MaxLen), {0},
             {<<>>, <<Arg("x", "Int")>>})

Spec == Init /\ [][Next]_vars

\* Loads, stores and returns of two locals, both types, one label.
LocalsInstructions ==
    {IntOne, FloatHalf, IReturnValue,
     ILoadName("x", Local), ILoadName("y", Local),
     IStoreName("x", Local), IStoreName("y", Local)}

InitLocals ==
    InitWith(Programs(LocalsInstructions, MaxLocalsLen), {0},
             {<<>>, <<Arg("x", "Int")>>})

SpecLocals == InitLocals /\ [][Next]_vars

\* Jumps and branches over two labels.
FlowInstructions ==
    {IJump(0), IJump(1), IJumpIfFalse(0), IJumpIfFalse(1), IntOne, IReturnValue}

InitFlow == InitWith(Programs(FlowInstructions, MaxFlowLen), {0, 1}, {<<>>})

SpecFlow == InitFlow /\ [][Next]_vars

CompareOps ==
    {"Equal", "NotEqual", "Less", "LessOrEqual", "Greater", "GreaterOrEqual", "In"}

BinaryOps == {"Add", "Subtract", "Multiply", "Divide", "Modulo"}

\* Every comparison and arithmetic operator over both types, and branches.
ArithInstructions ==
    {IntOne, FloatHalf, IJumpIfFalse(0), IReturnValue}
        \cup {ICompare(o) : o \in CompareOps} \cup {IBinary(o) : o \in BinaryOps}

InitArith == InitWith(Programs(ArithInstructions, MaxArithLen), {0}, {<<>>})

SpecArith == InitArith /\ [][Next]_vars

\* Integer literals of every size, returns and jumps.
ConstInstructions ==
    {ConstInteger(v) : v \in BigLiterals} \cup {IReturnValue, IJump(0)}

InitConst == InitWith(Programs(ConstInstructions, MaxConstLen), {0}, {<<>>})

SpecConst == InitConst /\ [][Next]_vars

\* Terminators, a branch, and instructions that fail when translated.
SkipInstructions ==
    {IJump(0), IJumpIfFalse(0), IntOne, FloatHalf, IReturnValue, IPop}

InitSkip == InitWith(Programs(SkipInstructions, MaxSkipLen), {0}, {<<>>})

SpecSkip == InitSkip /\ [][Next]_vars

(***************************************************************************)
(* The bytecode's own control flow, a configuration is an offset    *)
(* and the types on the operand stack there.  Executing the instruction at  *)
(* an offset leads to the next offset, or for a jump or a taken branch to   *)
(* the target's offset in label_map.  Constants, jumps, branches and        *)
(* returns are followed; a path ends at any other instruction.              *)
(***************************************************************************)
PathStep(cfg) ==
    IF cfg.o >= Len(instructions) THEN {}
    ELSE
    LET i == instructions[cfg.o + 1]
        targets(l) == IF l \in DOMAIN label_map THEN {label_map[l]} ELSE {}
    IN  CASE i.op = "LoadConst" /\ i.value.kind = "Integer" ->
               {[o |-> cfg.o + 1, st |-> Append(cfg.st, "Int")]}
          [] i.op = "LoadConst" /\ i.value.kind = "Float" ->
               {[o |-> cfg.o + 1, st |-> Append(cfg.st, "Float")]}
          [] i.op = "Jump" -> {[o |-> t, st |-> cfg.st] : t \in targets(i.target)}
          [] i.op = "JumpIfFalse" /\ Len(cfg.st) > 0 ->
               {[o |-> t, st |-> Pop(cfg.st)] : t \in targets(i.target) \cup {cfg.o + 1}}
          [] OTHER -> {}

RECURSIVE PathReach(_, _)
PathReach(S, k) ==
    LET T == S \cup UNION {PathStep(cfg) : cfg \in S}
    IN  IF k = 0 \/ T = S THEN S ELSE PathReach(T, k - 1)

\* The configurations on paths of at most twice the stream's length.
PathConfigs == PathReach({[o |-> 0, st |-> <<>>]}, 2 * Len(instructions))

\* All paths to an offset agree on the stack there.
PathsAgree ==
    \A c1, c2 \in PathConfigs : c1.o = c2.o => c1.st = c2.st

\* Branch to label 0, jump to label 1: the shapes of if/else and of a
\* conditional expression.
PathInstructions == {IJumpIfFalse(0), IJump(1), IntOne, IReturnValue}

\* Every jump and branch goes forward to a defined label, as in the code of
\* if/else statements and conditional expressions.
ForwardJumps ==
    \A k \in 1..Len(instructions) :
        instructions[k].op \in {"Jump", "JumpIfFalse"}
            => /\ instructions[k].target \in DOMAIN label_map
               /\ label_map[instructions[k].target] >= k

\* Every labelled offset lies on a path from the entry.
LabelsReached ==
    \A o \in DOMAIN offset_to_label : \E cfg \in PathConfigs : cfg.o = o

InitPath ==
    /\ InitWith(Programs(PathInstructions, MaxPathLen), {0, 1}, {<<>>})
    /\ ForwardJumps
    /\ LabelsReached

SpecPath == InitPath /\ [][Next]_vars

(***************************************************************************)
(* Properties.                                                              *)
(***************************************************************************)

\* The next step of the scan hands Current to add_instruction.
Translating == LoopContinues /\ PastLabel /\ ~is_filled(builder)

IsJump(instruction) == instruction.op \in {"Jump", "JumpIfFalse"}

BlockIds == 1..Len(builder.blocks)

\* A block ends in its only terminator.
Terminated(block) ==
    /\ Len(block.insts) > 0
    /\ block.insts[Len(block.insts)].op \in Terminators
    /\ \A i \in 1..(Len(block.insts) - 1) : block.insts[i].op \notin Terminators

\* C1: when compile returns Ok, every block of the graph (the entry block and
\* every block created at a label, by Jump or by JumpIfFalse) is non-empty,
\* ends in a terminator and holds no other terminator.
C1_EveryBlockTerminated ==
    result = Ok => \A b \in BlockIds : Terminated(builder.blocks[b])

\* C2: once label_to_block holds a block for a label, no step associates the
\* label with another block.
C2_LabelBlockNeverReplaced ==
    [][\A l \in DOMAIN label_to_block :
          l \in DOMAIN label_to_block' /\ label_to_block'[l] = label_to_block[l]]_vars

\* The destination of the jump or branch the step has just appended to the
\* block that was current: a Jump ends it with jump, a JumpIfFalse with brz
\* and fallthrough.
EmittedDest ==
    LET old == builder'.blocks[builder.cur].insts
    IN  IF Current.op = "Jump" THEN old[Len(old)].dest ELSE old[Len(old) - 1].dest

\* C3: a jump or branch translated for a label that already has its block
\* (made by an earlier jump to the label, or by the scan entering the label)
\* goes to that block, and the scan entering a label switches to the block
\* the label has: all jumps to one label share the block the scan enters.
C3_JumpsShareLabelBlock ==
    [][/\ (Translating /\ IsJump(Current) /\ result' = None
             /\ Current.target \in DOMAIN label_to_block)
          => EmittedDest = label_to_block[Current.target]
       /\ (LoopContinues /\ AtLabel
             /\ offset_to_label[offset] \in DOMAIN label_to_block)
          => builder'.cur = label_to_block[offset_to_label[offset]]]_vars

\* C7: translating a Jump or JumpIfFalse whose target is no key of label_map
\* makes compile return BadBytecode.
C7_UndefinedTargetIsBadBytecode ==
    [][(Translating /\ IsJump(Current) /\ Current.target \notin DOMAIN label_map)
          => result' = BadBytecode]_vars

IsLocal(instruction, kind) == instruction.op = kind /\ instruction.scope = Local

\* C5: a local keeps the type and variable of its first store; a StoreName
\* of a value of that type succeeds, one of another type fails with
\* NotSupported and changes no local, a first StoreName records the type of
\* the stored value, and a LoadName pushes a value of the recorded type.
C5_LocalTypeFixedByFirstStore ==
    [][/\ \A n \in DOMAIN variables :
             n \in DOMAIN variables' /\ variables'[n] = variables[n]
       /\ (Translating /\ IsLocal(Current, "StoreName") /\ Len(stack) > 0)
          => IF Current.name \in DOMAIN variables
             THEN IF Top(stack).ty = variables[Current.name].ty
                  THEN result' = None
                  ELSE result' = NotSupported /\ variables' = variables
             ELSE /\ result' = None
                  /\ variables'[Current.name].ty = Top(stack).ty
       /\ (Translating /\ IsLocal(Current, "LoadName")
             /\ Current.name \in DOMAIN variables)
          => /\ result' = None
             /\ Len(stack') = Len(stack) + 1
             /\ Top(stack').ty = variables[Current.name].ty]_vars

\* A StoreName of a second type under a name first stored by StoreName has
\* been rejected.
C5_Witness ==
    /\ result = NotSupported
    /\ sig.args = <<>>
    /\ IsLocal(Current, "StoreName")
    /\ Current.name \in DOMAIN variables

HasReturn(b) ==
    \E k \in 1..Len(b.blocks) :
        \E i \in 1..Len(b.blocks[k].insts) : b.blocks[k].insts[i].op = "return"

\* C6: the return type is unset exactly as long as no return has been
\* emitted, the first translated ReturnValue sets it to the type of its
\* value, it never changes afterwards, a ReturnValue of another type fails
\* with NotSupported and emits nothing, and the argument types never change.
C6_ReturnTypeFrozen ==
    [][/\ sig'.args = sig.args
       /\ sig.ret # None => sig'.ret = sig.ret
       /\ (sig'.ret = None) <=> ~HasReturn(builder')
       /\ (Translating /\ Current.op = "ReturnValue" /\ Len(stack) > 0)
          => IF sig.ret \in {None, Top(stack).ty}
             THEN result' = None /\ sig'.ret = Top(stack).ty
             ELSE result' = NotSupported /\ builder'.blocks = builder.blocks
       /\ ~(Translating /\ Current.op = "ReturnValue" /\ Len(stack) > 0)
          => sig'.ret = sig.ret]_vars

\* A second ReturnValue, of another type than the first, has been rejected.
C6_Witness ==
    /\ result = NotSupported
    /\ Current.op = "ReturnValue"
    /\ sig.ret # None
    /\ HasReturn(builder)

\* The operands an instruction pops.
Operands(instruction) ==
    CASE instruction.op \in {"CompareOperation", "BinaryOperation"} -> 2
      [] instruction.op \in {"JumpIfFalse", "ReturnValue"} -> 1
      [] IsLocal(instruction, "StoreName") -> 1
      [] OTHER -> 0

\* C8: an instruction translated with fewer values on the stack than it pops,
\* and a local LoadName of a name without a Local, fail with BadBytecode,
\* whatever the operator and the types of the values present.
C8_StructuralErrorsAreBadBytecode ==
    [][(/\ Translating
        /\ \/ Len(stack) < Operands(Current)
           \/ IsLocal(Current, "LoadName") /\ Current.name \notin DOMAIN variables)
          => result' = BadBytecode]_vars

\* A comparison with an operator that has no rule has failed for lack of its
\* second operand.
C8_Witness ==
    /\ result = BadBytecode
    /\ Current = ICompare("In")
    /\ builder.nvals > 0

\* C9: compile returns the error of the first instruction whose rule fails,
\* at that instruction's offset, and nothing changes after it has returned.
C9_StopsAtFirstFailure ==
    [][/\ (Translating /\ add_instruction(Self, Current).res # Ok)
          => /\ result' = add_instruction(Self, Current).res
             /\ offset' = offset
             /\ pc' = "done"
       /\ result # None => vars' = vars]_vars

\* compile has failed before the last instruction of the stream.
C9_Witness ==
    /\ result \in {BadBytecode, NotSupported}
    /\ offset + 1 < Len(instructions)

\* The instruction kinds add_instruction has no arm for.
NoRule(instruction) ==
    \/ instruction.op \notin {"JumpIfFalse", "Jump", "LoadName", "StoreName",
                              "LoadConst", "ReturnValue", "CompareOperation",
                              "BinaryOperation"}
    \/ instruction.op \in {"LoadName", "StoreName"} /\ instruction.scope # Local
    \/ instruction.op = "LoadConst" /\ instruction.value.kind \notin {"Integer", "Float"}

\* C10: translating an instruction of a kind without a rule fails with
\* NotSupported and leaves the stack, the locals, the labels, the signature
\* and the graph as they were.
C10_NoRuleIsNotSupported ==
    [][(Translating /\ NoRule(Current))
          => result' = NotSupported /\ UNCHANGED compiler]_vars

\* A store to a non-local scope has failed with a value on the stack.
C10_Witness ==
    /\ result = NotSupported
    /\ Current = IStoreName("x", "Global")
    /\ Len(stack) > 0

Types(s) == [i \in 1..Len(s) |-> s[i].ty]

\* C4: when an instruction is translated, the simulated stack has the depth
\* and the types that every control-flow path from the entry to that
\* instruction gives (stated for the streams whose paths agree with one
\* another, the only ones for which any stack can equal them all).
C4_StackFollowsControlFlow ==
    (Translating /\ PathsAgree)
        => \A cfg \in PathConfigs : cfg.o = offset => cfg.st = Types(stack)

\* The instructions the step appends to the block that was current.
Appended ==
    LET before == builder.blocks[builder.cur].insts
        after  == builder'.blocks[builder.cur].insts
    IN  SubSeq(after, Len(before) + 1, Len(after))

HasOp(insts, opcode) == \E i \in 1..Len(insts) : insts[i].op = opcode

\* The types of the left and the right operand: the two topmost values.
LeftTy == stack[Len(stack) - 1].ty
RightTy == stack[Len(stack)].ty

\* The operand types and operators BinaryOperation has an arm for.
BinaryRule(a, b, o) ==
    \/ a = "Int" /\ b = "Int" /\ o \in {"Add", "Subtract"}
    \/ a = "Float" /\ b = "Float" /\ o \in {"Add", "Subtract", "Multiply", "Divide"}

\* C11: a comparison of operands other than (Int, Int), an arithmetic
\* operation on operand types or an operator without a rule, and a
\* JumpIfFalse on a Float condition fail with NotSupported; the operands are
\* gone, no value is pushed and no instruction (no branch) is emitted.
C11_UntypedOperandsAreNotSupported ==
    [][/\ (/\ Translating /\ Len(stack) >= 2
           /\ \/ /\ Current.op = "CompareOperation"
                 /\ ~(LeftTy = "Int" /\ RightTy = "Int")
              \/ /\ Current.op = "BinaryOperation"
                 /\ ~BinaryRule(LeftTy, RightTy, Current.bin))
          => /\ result' = NotSupported
             /\ stack' = Pop(Pop(stack))
             /\ builder' = builder
       /\ (Translating /\ Current.op = "JumpIfFalse" /\ Len(stack) >= 1
             /\ Top(stack).ty = "Float")
          => /\ result' = NotSupported
             /\ stack' = Pop(stack)
             /\ Appended = <<>>
             /\ \A b \in 1..Len(builder'.blocks) :
                    builder'.blocks[b] =
                        IF b <= Len(builder.blocks) THEN builder.blocks[b]
                                                    ELSE EmptyBlock]_vars

\* A branch on a Float condition has been rejected.
C11_Witness ==
    /\ result = NotSupported
    /\ Current.op = "JumpIfFalse"
    /\ builder.nvals > 0

\* The integers the comparisons are evaluated on.
CmpRange == -2..2

\* The source comparison of a and b.
EvalCmp(o, a, b) ==
    CASE o = "Equal" -> a = b
      [] o = "NotEqual" -> a # b
      [] o = "Less" -> a < b
      [] o = "LessOrEqual" -> a <= b
      [] o = "Greater" -> a > b
      [] o = "GreaterOrEqual" -> a >= b

\* What icmp with a signed condition code yields on a and b.
EvalIntCC(cond, a, b) ==
    LET holds == CASE cond = "Equal" -> a = b
                   [] cond = "NotEqual" -> a # b
                   [] cond = "SignedLessThan" -> a < b
                   [] cond = "SignedLessThanOrEqual" -> a <= b
                   [] cond = "SignedGreaterThan" -> a > b
                   [] cond = "SignedGreaterThanOrEqual" -> a >= b
    IN  IF holds THEN 1 ELSE 0

\* C12: a comparison of two Int operands with one of the six comparison kinds
\* emits one icmp whose condition yields 1 exactly when the source comparison
\* holds, for all a and b, and pushes its result as Int.
C12_ComparisonMatchesSource ==
    [][(/\ Translating /\ Current.op = "CompareOperation" /\ Len(stack) >= 2
        /\ Current.cmp \in CompareOps \ {"In"}
        /\ LeftTy = "Int" /\ RightTy = "Int")
          => /\ result' = None
             /\ Len(Appended) = 1 /\ Appended[1].op = "icmp"
             /\ Top(stack') = JitValue(Appended[1].res, "Int")
             /\ \A a, b \in CmpRange :
                    (EvalIntCC(Appended[1].cond, a, b) = 1)
                        <=> EvalCmp(Current.cmp, a, b)]_vars

\* C13: an Int Add or Subtract appends an overflow-checked operation and
\* right after it a trapif on that operation's flag, and pushes the result
\* as Int; in every block each such operation is followed by its trap; a
\* Float operation appends one floating-point instruction and no trap.
C13_IntegerArithmeticTraps ==
    [][/\ (/\ Translating /\ Current.op = "BinaryOperation" /\ Len(stack) >= 2
           /\ LeftTy = "Int" /\ RightTy = "Int"
           /\ Current.bin \in {"Add", "Subtract"})
          => /\ result' = None
             /\ Len(Appended) = 2
             /\ Appended[1].op = (IF Current.bin = "Add" THEN "iadd_ifcout"
                                                          ELSE "isub_ifbout")
             /\ Appended[2] = [op |-> "trapif", cond |-> "Overflow",
                               flag |-> Appended[1].flag,
                               code |-> "IntegerOverflow"]
             /\ Top(stack') = JitValue(Appended[1].res, "Int")
       /\ (/\ Translating /\ Current.op = "BinaryOperation" /\ Len(stack) >= 2
           /\ LeftTy = "Float" /\ RightTy = "Float"
           /\ Current.bin \in {"Add", "Subtract", "Multiply", "Divide"})
          => /\ result' = None
             /\ Len(Appended) = 1
             /\ Appended[1].op =
                   (CASE Current.bin = "Add" -> "fadd"
                      [] Current.bin = "Subtract" -> "fsub"
                      [] Current.bin = "Multiply" -> "fmul"
                      [] Current.bin = "Divide" -> "fdiv")
             /\ Top(stack') = JitValue(Appended[1].res, "Float")
       /\ \A b \in 1..Len(builder'.blocks) :
             LET insts == builder'.blocks[b].insts
             IN  \A i \in 1..Len(insts) :
                    insts[i].op \in {"iadd_ifcout", "isub_ifbout"}
                        => /\ i < Len(insts)
                           /\ insts[i + 1].op = "trapif"
                           /\ insts[i + 1].flag = insts[i].flag]_vars

\* An Int addition has been translated.
C13_Witness ==
    \E b \in BlockIds : HasOp(builder.blocks[b].insts, "iadd_ifcout")

\* C15: a comparison or arithmetic operation translated on ..., a, b (b on
\* top) emits its operation on (a, b) in that order, removes both and pushes
\* the one result: the stack is one shorter.
C15_RightOperandPoppedFirst ==
    [][(/\ Translating /\ Current.op \in {"CompareOperation", "BinaryOperation"}
        /\ Len(stack) >= 2 /\ result' = None)
          => /\ Len(Appended) >= 1
             /\ Appended[1].a = stack[Len(stack) - 1].val
             /\ Appended[1].b = stack[Len(stack)].val
             /\ Appended[1].a # Appended[1].b
             /\ Len(stack') = Len(stack) - 1
             /\ Pop(stack') = Pop(Pop(stack))
             /\ Top(stack').val = Appended[1].res]_vars

\* An Int subtraction has been translated.
C15_Witness ==
    \E b \in BlockIds : HasOp(builder.blocks[b].insts, "isub_ifbout")

\* The integer a 64-bit two's complement pattern stands for, as a literal:
\* sign and limbs of 30 bits without leading zero limbs.
I64Value(w) ==
    LET neg == w[4] >= 32768
        m   == IF neg THEN Negate64(w) ELSE w
        l   == << m[1] + (m[2] % 16384) * 65536,
                  (m[2] \div 16384) + m[3] * 4 + (m[4] % 4096) * 262144,
                  m[4] \div 4096 >>
        n   == IF l[3] # 0 THEN 3 ELSE IF l[2] # 0 THEN 2
               ELSE IF l[1] # 0 THEN 1 ELSE 0
    IN  [neg |-> neg, limbs |-> SubSeq(l, 1, n)]

\* C14: an integer literal in -2^63 .. 2^63 - 1 emits one iconst of type I64
\* whose immediate stands for the literal's value and pushes its result as
\* the one new Int value; a literal outside the range fails with
\* NotSupported, pushes nothing and emits nothing.
C14_IntegerLiteralExactOrRejected ==
    [][(/\ Translating /\ Current.op = "LoadConst"
        /\ Current.value.kind = "Integer")
          => IF InI64(Current.value.integer)
             THEN /\ result' = None
                  /\ Len(Appended) = 1
                  /\ Appended[1].op = "iconst" /\ Appended[1].ty = "I64"
                  /\ I64Value(Appended[1].imm) = Current.value.integer
                  /\ stack' = Append(stack, JitValue(Appended[1].res, "Int"))
             ELSE /\ result' = NotSupported
                  /\ stack' = stack
                  /\ builder' = builder]_vars

\* A literal beyond the i64 range has been rejected, and -2^63 was loaded.
C14_Witness ==
    /\ result = NotSupported
    /\ Current = ConstInteger(BigTwo63)
    /\ \E b \in BlockIds : \E i \in 1..Len(builder.blocks[b].insts) :
          /\ builder.blocks[b].insts[i].op = "iconst"
          /\ builder.blocks[b].insts[i].imm = <<0, 0, 0, 32768>>

\* After a translated Jump or ReturnValue the block is filled; while it is,
\* an instruction at an unlabeled offset is passed over whatever it is: the
\* compiler is unchanged and compile does not fail; at a labeled offset the
\* scan switches to the label's block and translates the instruction there.
SkipsUntilLabel ==
    /\ (Translating /\ Current.op \in {"Jump", "ReturnValue"} /\ result' = None)
          => is_filled(builder')
    /\ (LoopContinues /\ PastLabel /\ is_filled(builder))
          => /\ compiler' = compiler
             /\ result' = None
             /\ offset' = offset + 1
    /\ (LoopContinues /\ AtLabel)
          => /\ offset' = offset
             /\ builder'.cur = label_to_block'[offset_to_label[offset]]
             /\ Translating'

\* A translated JumpIfFalse leaves the fresh, empty fallthrough block current.
BranchFallsThrough ==
    (Translating /\ Current.op = "JumpIfFalse" /\ result' = None)
        => /\ ~is_filled(builder')
           /\ builder'.cur = Len(builder'.blocks)
           /\ builder'.cur = NewBlock(builder) + 1
           /\ builder'.blocks[builder'.cur] = EmptyBlock

\* C16 as stated: instructions after a translated ReturnValue or Jump are
\* skipped up to the next labeled offset, where translation resumes, and the
\* instruction after a translated JumpIfFalse is translated into the fresh
\* fallthrough block.
C16_SkipsUntilLabel ==
    [][/\ SkipsUntilLabel
       /\ BranchFallsThrough
       /\ (Translating /\ Current.op = "JumpIfFalse" /\ result' = None
             /\ offset' < Len(instructions))
          => Translating']_vars

\* C16 amended: as above, but the instruction after a translated JumpIfFalse
\* is translated into the fresh fallthrough block only when its offset is no
\* labeled offset; when it is, the scan enters the label's block first (the
\* fallthrough block receives the jump into it) and translates it there.
C16_SkipsUntilLabelOrEntersIt ==
    [][/\ SkipsUntilLabel
       /\ BranchFallsThrough
       /\ (Translating /\ Current.op = "JumpIfFalse" /\ result' = None
             /\ offset' < Len(instructions))
          => IF offset' \in DOMAIN offset_to_label THEN AtLabel' ELSE Translating'
       /\ (LoopContinues /\ AtLabel /\ ~is_filled(builder))
          => /\ Appended = <<[op |-> "jump", dest |-> builder'.cur]>>
             /\ builder'.cur # builder.cur]_vars

\* A branch was followed by a labeled offset, whose ReturnValue went into the
\* label's block, and the unsupported instruction after it was skipped.
C16_Witness ==
    /\ instructions = <<IntOne, IntOne, IJumpIfFalse(0), IReturnValue, IPop>>
    /\ label_map = Put(EmptyMap, 0, 3)
    /\ result = Ok
    /\ builder.blocks[label_to_block[0]].insts = <<[op |-> "return", args |-> <<0>>]>>

\* The if/else with two returns: if c: return 1 else: return 1.
IfElseProgram ==
    <<IntOne, IJumpIfFalse(0), IntOne, IReturnValue, IntOne, IReturnValue>>

Count(S) == Cardinality(S)

\* The blocks holding a branch instruction, with its position.
Branches ==
    {<<b, i>> \in BlockIds \X (1..MaxPathLen) :
        /\ i <= Len(builder.blocks[b].insts)
        /\ builder.blocks[b].insts[i].op = "brz"}

\* C17: a JumpIfFalse on an Int condition creates the target block and
\* registers it under the label, appends brz to it on the condition, creates
\* the fallthrough block, appends the fallthrough edge and switches to it;
\* when the scan reaches the offset of a label whose registered block is the
\* target of a branch, it switches to that block; the if/else with two
\* returns compiles to one branch and two return-terminated blocks.
C17_BranchTargetEnteredAtLabel ==
    /\ [][/\ (Translating /\ Current.op = "JumpIfFalse" /\ Len(stack) >= 1
                /\ Top(stack).ty = "Int")
             => /\ result' = None
                /\ Len(builder'.blocks) = Len(builder.blocks) + 2
                /\ label_to_block'[Current.target] = Len(builder.blocks) + 1
                /\ Appended =
                      <<[op |-> "brz", arg |-> Top(stack).val,
                         dest |-> Len(builder.blocks) + 1],
                        [op |-> "fallthrough", dest |-> Len(builder.blocks) + 2]>>
                /\ builder'.cur = Len(builder.blocks) + 2
          /\ (LoopContinues /\ AtLabel)
             => \A l \in DOMAIN label_map \cap DOMAIN label_to_block :
                   (/\ label_map[l] = offset
                    /\ \E p \in Branches :
                          builder.blocks[p[1]].insts[p[2]].dest = label_to_block[l])
                      => builder'.cur = label_to_block[l]]_vars
    /\ []((/\ instructions = IfElseProgram
           /\ label_map = Put(EmptyMap, 0, 4)
           /\ pc = "done")
             => /\ result = Ok
                /\ Count(Branches) = 1
                /\ Count({b \in BlockIds :
                            /\ Terminated(builder.blocks[b])
                            /\ builder.blocks[b].insts[
                                  Len(builder.blocks[b].insts)].op = "return"}) = 2)

\* Thread t's call returns in this step, and what it returns.
Returns(t) == Len(returned'[t]) = Len(returned[t]) + 1
Returned(t) == returned'[t][Len(returned'[t])]

\* The Some values returned so far, with the call that returned each.
Successes ==
    {<<t, i>> \in Threads \X (1..CallsPerThread) :
        i <= Len(returned[t]) /\ returned[t][i].some}

AllReturned ==
    \A t \in Threads : at[t] = "idle" /\ Len(returned[t]) = CallsPerThread

\* C18: a call returning Some(v) returns the value the cell held right
\* before its own compare-exchange stored next(v); no two calls return the
\* same v; the cell holds the initial value advanced once per Some returned.
C18_EachPositionHandedOutOnce ==
    /\ [][\A t \in Threads :
            (Returns(t) /\ Returned(t).some)
               => /\ Returned(t).val = pos
                  /\ pos' = next(pos)
                  /\ pos' # Returned(t).val
                  /\ \A c \in Successes :
                        returned[c[1]][c[2]].val # Returned(t).val]_vars
    /\ [](pos = start + stride * Cardinality(Successes))

\* Both threads were handed a position, one of them twice.
C18_Witness ==
    /\ \A t \in Threads : \E c \in Successes : c[1] = t
    /\ Cardinality(Successes) > NumThreads

\* C19: the cell only ever changes from a p with done(p) false to next(p),
\* by a call that read p; a call returning None observed a p with done(p)
\* and does not write; so with next(p) = p + 1 and a start <= limit the cell
\* never exceeds limit and no call returns Some(v) with v >= limit.
C19_NeverAdvancesPastDone ==
    /\ [][/\ pos' # pos
             => /\ ~done(pos)
                /\ pos' = next(pos)
                /\ \E t \in Threads :
                      at[t] = "loop" /\ prev[t] = pos /\ Returns(t)
          /\ \A t \in Threads :
                (Returns(t) /\ ~Returned(t).some)
                    => done(prev[t]) /\ pos' = pos]_vars
    /\ []((stride = 1 /\ start <= limit)
             => /\ pos <= limit
                /\ \A c \in Successes : returned[c[1]][c[2]].val < limit)

\* The cell was advanced to the limit and a later call returned None.
C19_Witness ==
    /\ stride = 1 /\ start < limit /\ pos = limit
    /\ \E t \in Threads :
          /\ Len(returned[t]) = CallsPerThread
          /\ returned[t][1].some
          /\ ~returned[t][CallsPerThread].some

\* C20: when every thread goes on running, every call returns; and a call
\* goes round its loop again only when, since it last read the cell, another
\* call's compare-exchange succeeded: what a call has read is out of date
\* only through a step in which another call returns Some.
C20_EveryCallReturns ==
    /\ <>AllReturned
    /\ [][\A t \in Threads :
            /\ (at'[t] = "loop" /\ (at[t] = "idle" \/ prev'[t] # prev[t]))
                  => prev'[t] = pos'
            /\ (at[t] = "loop" /\ at'[t] = "loop" /\ prev[t] = pos
                  /\ prev'[t] # pos')
                  => \E u \in Threads \ {t} : Returns(u) /\ Returned(u).some
            /\ (at[t] = "loop" /\ at'[t] = "loop" /\ prev'[t] # prev[t])
                  => prev[t] # pos]_vars

\* A call has to go round again: the cell moved on since it read it.
C20_Witness ==
    \E t \in Threads : at[t] = "loop" /\ ~done(prev[t]) /\ prev[t] # pos

====
